---------------------------- MODULE Spec2Model ----------------------------
(***************************************************************************)
(* Session manager and role-based access control of the library server.   *)
(*                                                                         *)
(*   internal/auth/session.go   SessionManager (token -> Session registry) *)
(*   internal/db/database.go    users, roles, permissions, assignments,    *)
(*                              the startup bootstrap, HasPermission       *)
(*   main.go                    the hourly sweep goroutine                 *)
(*                                                                         *)
(* Time is counted in units of 12 hours: the 24-hour session lifetime of   *)
(* CreateSession is TTL = 2 units.                                         *)
(***************************************************************************)
EXTENDS Integers, Sequences, FiniteSets, TLC

\* ------------------------------------------------------------------ bounds

\* The clock stops at MaxTime.
MaxTime == 5

\* The clock of the interleaved runs stops at RaceMaxTime.
RaceMaxTime == 3

\* The clock of the served runs stops at HTTPMaxTime.
HTTPMaxTime == 3

\* An Authorization header is at most MaxHeaderLen pieces of text long.
MaxHeaderLen == 4

\* The uploads stop when table pdfs holds MaxPDFs rows.
MaxPDFs == 2

\* ------------------------------------------------------- program constants

\* 24 * time.Hour, in units of 12 hours.
TTL == 2

ErrNoAuthHeader == "no authorization header"
ErrInvalidAuthType == "invalid authorization type"
ErrInvalidToken == "invalid token"
NoError == "nil"

\* Values generateToken can return (32 random bytes, base64url-encoded).
Tokens == {"tok1", "tok2"}

\* Token strings a request can present: any issued or issuable token, and a
\* string that generateToken never returns (it is not 44 characters long).
TokenArgs == Tokens \cup {"abc"}

\* (userID, username) pairs the login and register handlers pass to CreateSession.
UserArgs == {[UserID |-> 1, Username |-> "amy"], [UserID |-> 2, Username |-> "bob"]}

\* The user whose sessions the interleaved runs create.
RaceUserArgs == {[UserID |-> 1, Username |-> "amy"]}

NoSession == [UserID |-> 0, Username |-> "", ExpiresAt |-> 0]

VARIABLES
    sessions,      \* SessionManager.sessions: token -> Session
    now,           \* the wall clock read by time.Now()
    issued,        \* history: tokens CreateSession has returned
    created,       \* history: token -> the time CreateSession returned it
    destroyed,     \* history: tokens DestroySession has been called on since issue
    last,          \* the last call and what it returned
    booted,        \* whether this release has started on the store (the RBAC tables exist)
    users,         \* table users: row i has id i (AUTOINCREMENT, no row is ever deleted)
    roles,         \* table roles: name of the role with id i
    permissions,   \* table permissions: name of the permission with id i
    role_permissions,  \* table role_permissions: rows [role_id, permission_id]
    user_roles,    \* table user_roles: rows [user_id, role_id, assigned_by]
    pdfs,          \* table pdfs: row i has id i, [title, filename, uploaded_by]
    pc,            \* per goroutine: the statement of the SessionManager method it is at
    local,         \* per goroutine: the method's arguments and local variables
    crashed        \* whether the Go runtime has thrown a fatal error

sessVars == <<sessions, now, issued, created, destroyed>>
dbVars == <<booted, users, roles, permissions, role_permissions, user_roles, pdfs>>
procVars == <<pc, local, crashed>>
vars == <<sessions, now, issued, created, destroyed, last,
          booted, users, roles, permissions, role_permissions, user_roles, pdfs,
          pc, local, crashed>>

\* ---------------------------------------------------------- session.go

\* After with the boundary instant counted as later.
AfterOrEqual(t, u) == t >= u

\* time.Time.After
After(t, u) == t > u

\* delete that empties the map.
MapClear(m, key) == << >>

\* delete that removes nothing.
MapKeep(m, key) == m

\* delete(m, key): a no-op when key is absent
MapDelete(m, key) == [k \in DOMAIN m \ {key} |-> m[k]]

\* m[key] = value
MapStore(m, key, value) == [k \in DOMAIN m \cup {key} |-> IF k = key THEN value ELSE m[k]]

\* generateToken: a token never returned before (256 random bits do not repeat)
generateToken(used) == Tokens \ used

\* CreateSession that stores the creation time as the expiry.
CreateSessionMapNoTTL(reg, t, token, userID, username) ==
    MapStore(reg, token, [UserID |-> userID, Username |-> username, ExpiresAt |-> t])

\* CreateSession that drops the user's earlier sessions.
CreateSessionMapSingle(reg, t, token, userID, username) ==
    MapStore([k \in {x \in DOMAIN reg : reg[x].UserID # userID} |-> reg[k]], token,
             [UserID |-> userID, Username |-> username, ExpiresAt |-> t + TTL])

\* The registry after CreateSession(userID, username) returned token at time t.
CreateSessionMap(reg, t, token, userID, username) ==
    MapStore(reg, token, [UserID |-> userID, Username |-> username, ExpiresAt |-> t + TTL])

\* ValidateSession that also evicts the expired entries when the token is unknown.
ValidateSessionSweepingOnMiss(reg, t, token) ==
    IF token \notin DOMAIN reg
    THEN [session |-> NoSession, err |-> ErrInvalidToken,
          reg |-> [k \in {x \in DOMAIN reg : ~After(t, reg[x].ExpiresAt)} |-> reg[k]]]
    ELSE IF After(t, reg[token].ExpiresAt)
         THEN [session |-> NoSession, err |-> ErrInvalidToken, reg |-> MapDelete(reg, token)]
         ELSE [session |-> reg[token], err |-> NoError, reg |-> reg]

\* ValidateSession with sliding expiry: a success renews the session.
ValidateSessionSliding(reg, t, token) ==
    IF token \notin DOMAIN reg
    THEN [session |-> NoSession, err |-> ErrInvalidToken, reg |-> reg]
    ELSE IF After(t, reg[token].ExpiresAt)
         THEN [session |-> NoSession, err |-> ErrInvalidToken, reg |-> MapDelete(reg, token)]
         ELSE [session |-> [reg[token] EXCEPT !.ExpiresAt = t + TTL], err |-> NoError,
               reg |-> [reg EXCEPT ![token].ExpiresAt = t + TTL]]

\* ValidateSession that fails on an expired session and leaves it in the map.
ValidateSessionKeepingExpired(reg, t, token) ==
    IF token \notin DOMAIN reg
    THEN [session |-> NoSession, err |-> ErrInvalidToken, reg |-> reg]
    ELSE IF After(t, reg[token].ExpiresAt)
         THEN [session |-> NoSession, err |-> ErrInvalidToken, reg |-> reg]
         ELSE [session |-> reg[token], err |-> NoError, reg |-> reg]

\* ValidateSession that reports an expired session with an error of its own.
ValidateSessionTellingExpired(reg, t, token) ==
    IF token \notin DOMAIN reg
    THEN [session |-> NoSession, err |-> ErrInvalidToken, reg |-> reg]
    ELSE IF After(t, reg[token].ExpiresAt)
         THEN [session |-> NoSession, err |-> "session expired", reg |-> MapDelete(reg, token)]
         ELSE [session |-> reg[token], err |-> NoError, reg |-> reg]

\* ValidateSession(token) at time t: the returned session and error, and the
\* registry it leaves.
ValidateSessionResult(reg, t, token) ==
    IF token \notin DOMAIN reg
    THEN [session |-> NoSession, err |-> ErrInvalidToken, reg |-> reg]
    ELSE IF After(t, reg[token].ExpiresAt)
         THEN [session |-> NoSession, err |-> ErrInvalidToken, reg |-> MapDelete(reg, token)]
         ELSE [session |-> reg[token], err |-> NoError, reg |-> reg]

\* The sweep that also removes the sessions expiring at this very instant.
CleanupMapAtBoundary(reg, t) ==
    [k \in {x \in DOMAIN reg : t < reg[x].ExpiresAt} |-> reg[k]]

\* The sweep that removes nothing.
CleanupMapKeepingAll(reg, t) == reg

\* The registry after CleanupExpiredSessions ran at time t.
CleanupMap(reg, t) ==
    [k \in {x \in DOMAIN reg : ~After(t, reg[x].ExpiresAt)} |-> reg[k]]

CreateSession(u) ==
    \E token \in generateToken(issued) :
        /\ sessions' = CreateSessionMap(sessions, now, token, u.UserID, u.Username)
        /\ issued' = issued \cup {token}
        /\ created' = MapStore(created, token, now)
        /\ destroyed' = destroyed \ {token}
        /\ last' = [op |-> "CreateSession", token |-> token, err |-> NoError]
        /\ UNCHANGED now

ValidateSession(token) ==
    LET r == ValidateSessionResult(sessions, now, token) IN
        /\ sessions' = r.reg
        /\ last' = [op |-> "ValidateSession", token |-> token, err |-> r.err,
                    session |-> r.session]
        /\ UNCHANGED <<now, issued, created, destroyed>>

DestroySession(token) ==
    /\ sessions' = MapDelete(sessions, token)
    /\ destroyed' = destroyed \cup {token}
    /\ last' = [op |-> "DestroySession", token |-> token, err |-> NoError,
                existed |-> token \in DOMAIN sessions]
    /\ UNCHANGED <<now, issued, created>>

CleanupExpiredSessions ==
    /\ sessions' = CleanupMap(sessions, now)
    /\ last' = [op |-> "CleanupExpiredSessions", token |-> "", err |-> NoError,
                removed |-> DOMAIN sessions \ DOMAIN CleanupMap(sessions, now)]
    /\ UNCHANGED <<now, issued, created, destroyed>>

\* Time passes between calls.
Tick ==
    /\ now < MaxTime
    /\ now' = now + 1
    /\ last' = [op |-> "Tick", token |-> "", err |-> NoError]
    /\ UNCHANGED <<sessions, issued, created, destroyed>>

\* NewSessionManager
InitSession ==
    /\ sessions = << >>
    /\ now = 0
    /\ issued = {}
    /\ created = << >>
    /\ destroyed = {}
    /\ last = [op |-> "init", token |-> "", err |-> NoError]


\* ---------------------------------------------------------- database.go

\* assigned_by of a grant made by the system (a nil *int, stored as SQL NULL)
NULL == 0

Usernames == {"amy", "bob"}
Emails == {"amy@x", "bob@x"}

\* user_id and role_id values a caller can pass. The admin handlers pass any
\* integer of the form and SQLite does not enforce the foreign keys, so a
\* user_id need not name a row: user 2 before a second registration.
UserIDArgs == {1, 2}
RoleIDArgs == {1, 2}
GranterArgs == {NULL, 1}

\* Permission names a caller can ask about: two of the catalog and one that is not.
PermissionArgs == {"view_pdf", "manage_roles", "print_pdf"}

\* initializeRBAC's tables
DefaultRoles == <<"admin", "user">>
DefaultPermissions ==
    <<"upload_pdf", "view_pdf", "edit_pdf", "delete_pdf", "manage_users", "manage_roles">>
\* The attachments with upload_pdf given to role user as well.
rolePermissionsUserUploads ==
    [admin |-> {"upload_pdf", "view_pdf", "edit_pdf", "delete_pdf", "manage_users",
                "manage_roles"},
     user |-> {"view_pdf", "upload_pdf"}]

rolePermissions ==
    [admin |-> {"upload_pdf", "view_pdf", "edit_pdf", "delete_pdf", "manage_users",
                "manage_roles"},
     user |-> {"view_pdf"}]

\* The store as one value.
DB == [users |-> users, roles |-> roles, permissions |-> permissions,
       role_permissions |-> role_permissions, user_roles |-> user_roles, pdfs |-> pdfs]

\* SELECT id FROM <table> WHERE name = ?: the id, or 0 for sql.ErrNoRows
IDByName(table, name) ==
    IF \E i \in 1..Len(table) : table[i] = name
    THEN CHOOSE i \in 1..Len(table) : table[i] = name
    ELSE 0

getRoleIDByName(db, name) == IDByName(db.roles, name)
getPermissionIDByName(db, name) == IDByName(db.permissions, name)

\* INSERT OR IGNORE INTO <table> (name, ...): name is UNIQUE
InsertOrIgnore(table, name) ==
    IF IDByName(table, name) # 0 THEN table ELSE Append(table, name)

RECURSIVE InsertAllOrIgnore(_, _)
InsertAllOrIgnore(table, names) ==
    IF names = << >> THEN table
    ELSE InsertAllOrIgnore(InsertOrIgnore(table, Head(names)), Tail(names))

\* initializeRBAC: the roles, the permission catalog, and the attachments
\* (INSERT OR IGNORE INTO role_permissions: UNIQUE(role_id, permission_id)).
initializeRBAC(db) ==
    LET rs == InsertAllOrIgnore(db.roles, DefaultRoles)
        ps == InsertAllOrIgnore(db.permissions, DefaultPermissions)
        attach == UNION {{[role_id |-> IDByName(rs, rn), permission_id |-> IDByName(ps, pn)] :
                             pn \in rolePermissions[rn]} : rn \in DOMAIN rolePermissions}
    IN  [db EXCEPT !.roles = rs, !.permissions = ps,
                   !.role_permissions = db.role_permissions \cup attach]

\* GetUserRoles: roles r INNER JOIN user_roles ur ON r.id = ur.role_id
\* WHERE ur.user_id = ?, as the set of role ids
GetUserRoles(db, userID) ==
    {r \in 1..Len(db.roles) :
        \E ur \in db.user_roles : ur.user_id = userID /\ ur.role_id = r}

\* AssignRole as a plain INSERT into a table without the UNIQUE constraint.
AssignRoleRowsInsert(rows, userID, roleID, assignedBy) ==
    rows \cup {[user_id |-> userID, role_id |-> roleID, assigned_by |-> assignedBy]}

\* AssignRole: INSERT OR REPLACE INTO user_roles (user_id, role_id, assigned_by);
\* UNIQUE(user_id, role_id) makes REPLACE delete the row of the same pair.
AssignRoleRows(rows, userID, roleID, assignedBy) ==
    {ur \in rows : ~(ur.user_id = userID /\ ur.role_id = roleID)}
        \cup {[user_id |-> userID, role_id |-> roleID, assigned_by |-> assignedBy]}

\* RemoveRole: DELETE FROM user_roles WHERE user_id = ? AND role_id = ?
RemoveRoleRows(rows, userID, roleID) ==
    {ur \in rows : ~(ur.user_id = userID /\ ur.role_id = roleID)}

\* The query of HasPermission without its WHERE ur.user_id = ?.
\* (defined with the query below)
\* HasPermission's query: COUNT(*) of user_roles ur JOIN role_permissions rp ON
\* ur.role_id = rp.role_id JOIN permissions p ON rp.permission_id = p.id
\* WHERE ur.user_id = ? AND p.name = ?
HasPermissionCountAnyUser(db, userID, permissionName) ==
    LET urs == db.user_roles
        ps == {p \in 1..Len(db.permissions) : db.permissions[p] = permissionName}
        rps == {rp \in db.role_permissions : rp.permission_id \in ps}
    IN  Cardinality({x \in urs \X rps : x[1].role_id = x[2].role_id})

HasPermissionCount(db, userID, permissionName) ==
    LET urs == {ur \in db.user_roles : ur.user_id = userID}
        ps == {p \in 1..Len(db.permissions) : db.permissions[p] = permissionName}
        rps == {rp \in db.role_permissions : rp.permission_id \in ps}
    IN  Cardinality({x \in urs \X rps : x[1].role_id = x[2].role_id})

\* HasPermission(userID, permissionName): (count > 0, nil), or (false, err)
\* when the query fails.
HasPermission(db, userID, permissionName, fails) ==
    IF fails THEN [value |-> FALSE, err |-> "storage error"]
    ELSE [value |-> HasPermissionCount(db, userID, permissionName) > 0, err |-> NoError]

\* BINARY collation of the text values used here.
Collation == <<"amy", "amy@x", "bob", "bob@x">>
TextRank(t) == CHOOSE i \in 1..Len(Collation) : Collation[i] = t

\* The orders in which SELECT id FROM users can return the ids. The query has
\* no ORDER BY, so the order is that of the scan SQLite plans: the covering
\* index of the UNIQUE column email, in email order (the plan of SQLite 3.40:
\* SCAN users USING COVERING INDEX sqlite_autoindex_users_2), or the table, in
\* id order.
SelectUserIDs(db) ==
    LET n == Len(db.users)
        perms == {o \in [1..n -> 1..n] : \A i, j \in 1..n : i # j => o[i] # o[j]}
        byID == {o \in perms : \A i, j \in 1..n : i < j => o[i] < o[j]}
        byEmail == {o \in perms : \A i, j \in 1..n : i < j =>
                       TextRank(db.users[o[i]].email) < TextRank(db.users[o[j]].email)}
    IN  byID \cup byEmail

\* assignDefaultRoles' first loop: a user GetUserRoles finds no role for gets "user".
RECURSIVE AssignUserRoleLoop(_, _, _)
AssignUserRoleLoop(db, userIDs, userRoleID) ==
    IF userIDs = << >> THEN db
    ELSE LET userID == Head(userIDs)
             next == IF Cardinality(GetUserRoles(db, userID)) = 0
                     THEN [db EXCEPT !.user_roles =
                              AssignRoleRows(db.user_roles, userID, userRoleID, NULL)]
                     ELSE db
         IN  AssignUserRoleLoop(next, Tail(userIDs), userRoleID)

\* SELECT COUNT(*) FROM user_roles WHERE role_id = ?
AdminCount(db, adminRoleID) ==
    Cardinality({ur \in db.user_roles : ur.role_id = adminRoleID})

\* The promotion without its adminCount == 0 test.
PromotesFirstWheneverUsers(db, userIDs, adminRoleID) == Len(userIDs) > 0

\* Whether assignDefaultRoles promotes userIDs[0].
PromotesFirst(db, userIDs, adminRoleID) ==
    AdminCount(db, adminRoleID) = 0 /\ Len(userIDs) > 0

\* assignDefaultRoles, with userIDs the ids in the order the query returned them.
assignDefaultRoles(db, userIDs) ==
    LET userRoleID == getRoleIDByName(db, "user")
        adminRoleID == getRoleIDByName(db, "admin")
        d1 == AssignUserRoleLoop(db, userIDs, userRoleID)
    IN  IF PromotesFirst(d1, userIDs, adminRoleID)
        THEN [d1 EXCEPT !.user_roles =
                 AssignRoleRows(d1.user_roles, userIDs[1], adminRoleID, NULL)]
        ELSE d1

\* createTables' bootstrap pass: initializeRBAC, then assignDefaultRoles.
BootstrapPass(db, userIDs) == assignDefaultRoles(initializeRBAC(db), userIDs)

\* The stores a bootstrap pass on db can leave.
BootstrapOutcomes(db) == {BootstrapPass(db, o) : o \in SelectUserIDs(db)}

\* INSERT INTO users with email the only UNIQUE column.
UserConflictEmailOnly(db, username, email) ==
    \E i \in 1..Len(db.users) : db.users[i].email = email

\* INSERT INTO users: username and email are UNIQUE
UserConflict(db, username, email) ==
    \E i \in 1..Len(db.users) :
        db.users[i].username = username \/ db.users[i].email = email

\* CreateUser of the release before roles existed: the users row alone.
LegacyCreateUserResult(db, username, email) ==
    IF UserConflict(db, username, email)
    THEN [db |-> db, err |-> "UNIQUE constraint failed"]
    ELSE [db |-> [db EXCEPT !.users = Append(db.users, [username |-> username, email |-> email])],
          err |-> NoError]

\* CreateUser: in one transaction the users row, then the user_roles row
\* (user_id, id of role "user") with no assigned_by; any failure rolls back.
CreateUserResult(db, username, email) ==
    LET userID == Len(db.users) + 1
        userRoleID == getRoleIDByName(db, "user")
    IN  IF UserConflict(db, username, email)
        THEN [db |-> db, err |-> "UNIQUE constraint failed"]
        ELSE IF userRoleID = 0
        THEN [db |-> db, err |-> "failed to get user role ID"]
        ELSE IF \E ur \in db.user_roles : ur.user_id = userID /\ ur.role_id = userRoleID
        THEN [db |-> db, err |-> "UNIQUE constraint failed"]
        ELSE [db |-> [db EXCEPT
                        !.users = Append(db.users, [username |-> username, email |-> email]),
                        !.user_roles = db.user_roles \cup
                            {[user_id |-> userID, role_id |-> userRoleID, assigned_by |-> NULL]}],
              err |-> NoError]

\* The store variables take the value db.
SetDB(db) ==
    /\ users' = db.users
    /\ roles' = db.roles
    /\ permissions' = db.permissions
    /\ role_permissions' = db.role_permissions
    /\ user_roles' = db.user_roles
    /\ pdfs' = db.pdfs

\* A registration served by the earlier release, before this one first started.
LegacyCreateUser(username, email) ==
    LET r == LegacyCreateUserResult(DB, username, email) IN
        /\ ~booted
        /\ SetDB(r.db)
        /\ last' = [op |-> "LegacyCreateUser", err |-> r.err]
        /\ UNCHANGED <<booted, sessVars, procVars>>

\* Process start: NewDatabase runs createTables, which ends with the bootstrap
\* pass. promoted is the user the pass made admin, or NULL.
Bootstrap ==
    \E userIDs \in SelectUserIDs(DB) :
        LET d0 == initializeRBAC(DB)
            d1 == AssignUserRoleLoop(d0, userIDs, getRoleIDByName(d0, "user"))
        IN  /\ SetDB(BootstrapPass(DB, userIDs))
            /\ booted' = TRUE
            /\ last' = [op |-> "Bootstrap",
                        promoted |-> IF PromotesFirst(d1, userIDs, getRoleIDByName(d0, "admin"))
                                     THEN userIDs[1] ELSE NULL,
                        err |-> NoError]
            /\ UNCHANGED <<sessVars, procVars>>

CreateUser(username, email) ==
    LET r == CreateUserResult(DB, username, email) IN
        /\ booted
        /\ SetDB(r.db)
        /\ last' = [op |-> "CreateUser", err |-> r.err]
        /\ UNCHANGED <<booted, sessVars, procVars>>

AssignRole(userID, roleID, assignedBy) ==
    /\ booted
    /\ user_roles' = AssignRoleRows(user_roles, userID, roleID, assignedBy)
    /\ last' = [op |-> "AssignRole", user |-> userID, role |-> roleID,
                by |-> assignedBy, err |-> NoError,
                replaced |-> \E ur \in user_roles :
                                ur.user_id = userID /\ ur.role_id = roleID]
    /\ UNCHANGED <<booted, users, roles, permissions, role_permissions, pdfs, sessVars,
                   procVars>>

RemoveRole(userID, roleID) ==
    /\ booted
    /\ user_roles' = RemoveRoleRows(user_roles, userID, roleID)
    /\ last' = [op |-> "RemoveRole", user |-> userID, role |-> roleID, err |-> NoError]
    /\ UNCHANGED <<booted, users, roles, permissions, role_permissions, pdfs, sessVars,
                   procVars>>

\* A call of HasPermission; fails is whether the store fails the query.
HasPermissionCall(userID, permissionName, fails) ==
    LET r == HasPermission(DB, userID, permissionName, fails) IN
        /\ booted
        /\ last' = [op |-> "HasPermission", user |-> userID, perm |-> permissionName,
                    value |-> r.value, err |-> r.err]
        /\ UNCHANGED <<dbVars, sessVars, procVars>>

\* A new library.db
InitStore ==
    /\ booted = FALSE
    /\ users = << >>
    /\ roles = << >>
    /\ permissions = << >>
    /\ role_permissions = {}
    /\ user_roles = {}
    /\ pdfs = << >>

\* ------------------------------------------------- goroutines (main.go)

\* The histories created, destroyed and last are kept by the whole-call actions
\* above only; the statement-level actions below leave them alone, and the
\* handlers further down keep last alone.
\* net/http runs every request in a goroutine of its own; main starts one more
\* goroutine that sleeps an hour and calls CleanupExpiredSessions, for ever.
Handlers == {"req1", "req2"}
Sweeper == "sweep"
Procs == Handlers \cup {Sweeper}

NoLocal == [token |-> "", session |-> NoSession, exists |-> FALSE, left |-> {}, at |-> 0]

\* The statements of a SessionManager method that read or write the map.
\* The methods take no lock: a goroutine is inside the registry from the call
\* to the return.
InRegistry(p) == pc[p] # "idle"

\* Statements that write the map.
Writes(p) ==
    \/ pc[p] \in {"CreateSession:store", "DestroySession:delete"}
    \/ pc[p] = "ValidateSession:check" /\ local[p].exists
          /\ After(now, local[p].session.ExpiresAt)
    \/ pc[p] = "CleanupExpiredSessions:range"
          /\ \E k \in local[p].left \cap DOMAIN sessions :
                After(local[p].at, sessions[k].ExpiresAt)

Goto(p, label, loc) ==
    /\ pc' = [pc EXCEPT ![p] = label]
    /\ local' = [local EXCEPT ![p] = loc]

\* CreateSession up to the map store: generateToken and time.Now().Add(24h).
CallCreateSession(p, u) ==
    /\ ~crashed /\ pc[p] = "idle"
    /\ \E token \in generateToken(issued) :
          /\ issued' = issued \cup {token}
          /\ Goto(p, "CreateSession:store",
                  [NoLocal EXCEPT !.token = token,
                      !.session = [UserID |-> u.UserID, Username |-> u.Username,
                                   ExpiresAt |-> now + TTL]])
    /\ UNCHANGED <<sessions, now, created, destroyed, last, crashed, dbVars>>

\* sm.sessions[token] = &Session{...}; return token, nil
StoreSession(p) ==
    /\ ~crashed /\ pc[p] = "CreateSession:store"
    /\ sessions' = MapStore(sessions, local[p].token, local[p].session)
    /\ Goto(p, "idle", NoLocal)
    /\ UNCHANGED <<now, issued, created, destroyed, last, crashed, dbVars>>

CallValidateSession(p, token) ==
    /\ ~crashed /\ pc[p] = "idle"
    /\ Goto(p, "ValidateSession:lookup", [NoLocal EXCEPT !.token = token])
    /\ UNCHANGED <<sessVars, last, crashed, dbVars>>

\* session, exists := sm.sessions[token]
LookupSession(p) ==
    /\ ~crashed /\ pc[p] = "ValidateSession:lookup"
    /\ Goto(p, "ValidateSession:check",
            IF local[p].token \in DOMAIN sessions
            THEN [local[p] EXCEPT !.session = sessions[local[p].token], !.exists = TRUE]
            ELSE local[p])
    /\ UNCHANGED <<sessVars, last, crashed, dbVars>>

\* if !exists {return}; if time.Now().After(session.ExpiresAt) {delete; return};
\* return session, nil
CheckSession(p) ==
    /\ ~crashed /\ pc[p] = "ValidateSession:check"
    /\ sessions' = IF local[p].exists /\ After(now, local[p].session.ExpiresAt)
                   THEN MapDelete(sessions, local[p].token)
                   ELSE sessions
    /\ Goto(p, "idle", NoLocal)
    /\ UNCHANGED <<now, issued, created, destroyed, last, crashed, dbVars>>

CallDestroySession(p, token) ==
    /\ ~crashed /\ pc[p] = "idle"
    /\ Goto(p, "DestroySession:delete", [NoLocal EXCEPT !.token = token])
    /\ UNCHANGED <<sessVars, last, crashed, dbVars>>

\* delete(sm.sessions, token)
DeleteSession(p) ==
    /\ ~crashed /\ pc[p] = "DestroySession:delete"
    /\ sessions' = MapDelete(sessions, local[p].token)
    /\ Goto(p, "idle", NoLocal)
    /\ UNCHANGED <<now, issued, created, destroyed, last, crashed, dbVars>>

\* The sweep goroutine wakes: now := time.Now(), and the range loop starts on
\* the entries the map holds.
CallCleanup ==
    /\ ~crashed /\ pc[Sweeper] = "idle"
    /\ Goto(Sweeper, "CleanupExpiredSessions:range",
            [NoLocal EXCEPT !.left = DOMAIN sessions, !.at = now])
    /\ UNCHANGED <<sessVars, last, crashed, dbVars>>

\* One iteration of the range loop, on an entry that was in the map when the
\* loop started and still is (an entry deleted before the loop reaches it is
\* not produced; one stored during the loop expires after local.at, so it is
\* left alone whether the loop produces it or not).
RangeStep ==
    /\ ~crashed /\ pc[Sweeper] = "CleanupExpiredSessions:range"
    /\ \E k \in local[Sweeper].left \cap DOMAIN sessions :
          /\ sessions' = IF After(local[Sweeper].at, sessions[k].ExpiresAt)
                         THEN MapDelete(sessions, k) ELSE sessions
          /\ Goto(Sweeper, "CleanupExpiredSessions:range",
                  [local[Sweeper] EXCEPT !.left = (@ \cap DOMAIN sessions) \ {k}])
    /\ UNCHANGED <<now, issued, created, destroyed, last, crashed, dbVars>>

\* The range loop ends when no entry it has to produce is left.
EndCleanup ==
    /\ ~crashed /\ pc[Sweeper] = "CleanupExpiredSessions:range"
    /\ local[Sweeper].left \cap DOMAIN sessions = {}
    /\ Goto(Sweeper, "idle", NoLocal)
    /\ UNCHANGED <<sessVars, last, crashed, dbVars>>

\* Two goroutines in the map at once, one of them writing: the Go runtime may
\* detect it and end the process ("fatal error: concurrent map writes",
\* "concurrent map read and map write", "concurrent map iteration and map write").
RuntimeThrow ==
    /\ ~crashed
    /\ \E p, q \in Procs : p # q /\ Writes(p) /\ InRegistry(q)
    /\ crashed' = TRUE
    /\ UNCHANGED <<sessVars, last, pc, local, dbVars>>

\* Time passes.
ClockTick ==
    /\ ~crashed
    /\ now < RaceMaxTime
    /\ now' = now + 1
    /\ UNCHANGED <<sessions, issued, created, destroyed, last, procVars, dbVars>>

InitProcs ==
    /\ pc = [p \in Procs |-> "idle"]
    /\ local = [p \in Procs |-> NoLocal]
    /\ crashed = FALSE

Init == InitSession /\ InitStore /\ InitProcs

\* ------------------------------------------ session.go: GetSessionToken

\* A header value is a sequence of pieces of text; " " is the one piece that
\* holds a space, and it is a single space.
HeaderAtoms == {"Bearer", "Token", "abc", " "}
Headers == UNION {[1..n -> HeaderAtoms] : n \in 0..MaxHeaderLen}

\* r.Cookie("session_token"): the cookie, or http.ErrNoCookie
NoCookie == [present |-> FALSE, value |-> ""]
CookieArgs == {NoCookie} \cup {[present |-> TRUE, value |-> v] : v \in {"", "tok1", "abc"}}

\* The text of a sequence of pieces.
RECURSIVE Join(_)
Join(pieces) == IF pieces = << >> THEN "" ELSE Head(pieces) \o Join(Tail(pieces))

\* strings.Split(s, " "): the parts between the spaces, empty parts included
RECURSIVE Split(_)
Split(s) ==
    IF \A i \in 1..Len(s) : s[i] # " " THEN <<s>>
    ELSE LET i == CHOOSE k \in 1..Len(s) : s[k] = " " /\ \A j \in 1..(k - 1) : s[j] # " "
         IN  <<SubSeq(s, 1, i - 1)>> \o Split(SubSeq(s, i + 1, Len(s)))

\* GetSessionToken that reads the Authorization header before the cookie.
GetSessionTokenHeaderFirst(r) ==
    IF r.header # << >> /\ Len(Split(r.header)) = 2 /\ Join(Split(r.header)[1]) = "Bearer"
    THEN [token |-> Join(Split(r.header)[2]), err |-> NoError]
    ELSE IF r.cookie.present THEN [token |-> r.cookie.value, err |-> NoError]
    ELSE IF r.header = << >> THEN [token |-> "", err |-> ErrNoAuthHeader]
    ELSE [token |-> "", err |-> ErrInvalidAuthType]

\* GetSessionToken(r): the cookie first, the Authorization header as fallback
GetSessionToken(r) ==
    IF r.cookie.present THEN [token |-> r.cookie.value, err |-> NoError]
    ELSE IF r.header = << >> THEN [token |-> "", err |-> ErrNoAuthHeader]
    ELSE LET parts == Split(r.header) IN
         IF Len(parts) # 2 \/ Join(parts[1]) # "Bearer"
         THEN [token |-> "", err |-> ErrInvalidAuthType]
         ELSE [token |-> Join(parts[2]), err |-> NoError]

\* A request arrives and its token is extracted.
GetSessionTokenCall ==
    /\ last.op = "request"
    /\ LET r == GetSessionToken(last) IN
           last' = [op |-> "GetSessionToken", cookie |-> last.cookie, header |-> last.header,
                    token |-> r.token, err |-> r.err]
    /\ UNCHANGED <<sessVars, dbVars, procVars>>

\* Any request, on a server that has served none.
InitToken ==
    /\ sessions = << >>
    /\ now = 0
    /\ issued = {}
    /\ created = << >>
    /\ destroyed = {}
    /\ InitStore
    /\ InitProcs
    /\ last \in {[op |-> "request", cookie |-> c, header |-> h] : c \in CookieArgs, h \in Headers}

\* ------------------------------------------------------ handlers (HTTP)

\* Requests a client sends: the session_token cookie it presents, if any, and
\* its Authorization header.
Cookie(v) == [present |-> TRUE, value |-> v]
HTTPRequests ==
    {[cookie |-> NoCookie, header |-> << >>],
     [cookie |-> NoCookie, header |-> <<"Token", " ", "abc">>],
     [cookie |-> NoCookie, header |-> <<"Bearer", " ", "tok1">>],
     [cookie |-> Cookie("tok1"), header |-> << >>],
     [cookie |-> Cookie("tok2"), header |-> <<"Bearer", " ", "tok1">>]}

\* The account the register form is filled in with.
RegisterArgs == {[username |-> "bob", email |-> "bob@x"]}

\* The method and the form fields user_id and role_id of the requests to
\* /admin/assign-role and /admin/remove-role.
WellFormed == [method |-> "POST", user_id |-> "2", role_id |-> "1"]
RoleForms ==
    {WellFormed,
     [method |-> "GET", user_id |-> "2", role_id |-> "1"],
     [method |-> "POST", user_id |-> "", role_id |-> "1"],
     [method |-> "POST", user_id |-> "x", role_id |-> "1"],
     [method |-> "POST", user_id |-> "2", role_id |-> "y"]}

\* The storage call of a request that fails, if one does.
Faults == {"none", "GetUser", "HasPermission", "Query"}

\* The calls of a protected route: any request with no fault, and a request
\* that presents a cookie with any fault.
RouteCalls ==
    {[r |-> r, fault |-> "none"] : r \in HTTPRequests}
        \cup {[r |-> r, fault |-> x] : r \in {q \in HTTPRequests : q.cookie.present},
                                      x \in Faults}

\* The calls of a role endpoint: those of a protected route with the
\* well-formed form, and a request that presents a cookie with a malformed form.
RoleCalls ==
    {[r |-> c.r, form |-> WellFormed, fault |-> c.fault] : c \in RouteCalls}
        \cup {[r |-> r, form |-> f, fault |-> "none"] :
                  r \in {q \in HTTPRequests : q.cookie.present}, f \in RoleForms}

\* The account registered with the release before roles existed.
LegacyArgs == {[username |-> "amy", email |-> "amy@x"]}

\* strconv.Atoi on the form values used here
Atoi(str) ==
    IF str = "1" THEN [value |-> 1, err |-> NoError]
    ELSE IF str = "2" THEN [value |-> 2, err |-> NoError]
    ELSE [value |-> 0, err |-> "invalid syntax"]

\* http.Redirect(w, r, location, http.StatusSeeOther), after
\* auth.ClearSessionCookie(w) when cleared
Redirect(location, cleared) ==
    [status |-> 303, location |-> location, cleared |-> cleared, next |-> FALSE, body |-> ""]

\* http.Error(w, body, status)
Error(body, status) ==
    [status |-> status, location |-> "", cleared |-> FALSE, next |-> FALSE, body |-> body]

\* The response of a handler that rendered its page or wrote its redirect.
Handled(status, location) ==
    [status |-> status, location |-> location, cleared |-> FALSE, next |-> TRUE, body |-> ""]

\* GetUserByID / GetUserWithRoles: the user's id, or 0 with an error (no such
\* row, or the query failed)
GetUserByID(db, id, fails) ==
    IF fails \/ id \notin 1..Len(db.users) THEN [id |-> 0, err |-> "sql error"]
    ELSE [id |-> id, err |-> NoError]

\* GetUserByUsername: the id of the user of that name, or 0 with sql.ErrNoRows
GetUserByUsername(db, username) ==
    IF \E i \in 1..Len(db.users) : db.users[i].username = username
    THEN [id |-> CHOOSE i \in 1..Len(db.users) : db.users[i].username = username,
          err |-> NoError]
    ELSE [id |-> 0, err |-> "sql: no rows in result set"]

\* The middleware that falls back to the Bearer token of the header when the
\* cookie's value is not a valid session.
AuthMiddlewareBearerFallback(reg, t, db, r, fault) ==
    LET c == GetSessionToken(r)
        h == GetSessionToken([r EXCEPT !.cookie = NoCookie])
        ext == IF /\ r.cookie.present
                  /\ ValidateSessionResult(reg, t, c.token).err # NoError
                  /\ h.err = NoError
               THEN h ELSE c
        v == ValidateSessionResult(reg, t, ext.token)
        u == GetUserByID(db, v.session.UserID, fault = "GetUser")
    IN  IF ext.err # NoError
        THEN [resp |-> Redirect("/login", FALSE), reg |-> reg, user |-> 0,
              token |-> "", stage |-> "token"]
        ELSE IF v.err # NoError
        THEN [resp |-> Redirect("/login", TRUE), reg |-> v.reg, user |-> 0,
              token |-> ext.token, stage |-> "session"]
        ELSE IF u.err # NoError
        THEN [resp |-> Redirect("/login", FALSE), reg |-> v.reg, user |-> 0,
              token |-> ext.token, stage |-> "user"]
        ELSE [resp |-> Handled(200, ""), reg |-> v.reg, user |-> u.id,
              token |-> ext.token, stage |-> "next"]

\* AuthMiddleware of AdminHandler and of LibraryHandler (the two differ in
\* loading the user with or without its roles): the rejection, or the user
\* the protected handler is called with; and the registry it leaves.
AuthMiddleware(reg, t, db, r, fault) ==
    LET ext == GetSessionToken(r)
        v == ValidateSessionResult(reg, t, ext.token)
        u == GetUserByID(db, v.session.UserID, fault = "GetUser")
    IN  IF ext.err # NoError
        THEN [resp |-> Redirect("/login", FALSE), reg |-> reg, user |-> 0,
              token |-> "", stage |-> "token"]
        ELSE IF v.err # NoError
        THEN [resp |-> Redirect("/login", TRUE), reg |-> v.reg, user |-> 0,
              token |-> ext.token, stage |-> "session"]
        ELSE IF u.err # NoError
        THEN [resp |-> Redirect("/login", FALSE), reg |-> v.reg, user |-> 0,
              token |-> ext.token, stage |-> "user"]
        ELSE [resp |-> Handled(200, ""), reg |-> v.reg, user |-> u.id,
              token |-> ext.token, stage |-> "next"]

\* hasPermission that answers from the roles of the first user.
hasPermissionOfFirstUser(db, user, permissionName, fails) ==
    IF user = 0 THEN [value |-> FALSE, err |-> NoError]
    ELSE HasPermission(db, 1, permissionName, fails)

\* AdminHandler.hasPermission: false for no user, else HasPermission
hasPermission(db, user, permissionName, fails) ==
    IF user = 0 THEN [value |-> FALSE, err |-> NoError]
    ELSE HasPermission(db, user, permissionName, fails)

\* The permission check that lets the request through when the query fails.
AdminGateFailOpen(hp) ==
    IF hp.err # NoError THEN "granted"
    ELSE IF ~hp.value THEN "denied" ELSE "granted"

\* The permission check that lets a user without the permission through.
AdminGateDeniedOpen(hp) ==
    IF hp.err # NoError THEN "error" ELSE "granted"

\* The permission check that opens the three admin handlers.
AdminGate(hp) ==
    IF hp.err # NoError THEN "error"
    ELSE IF ~hp.value THEN "denied" ELSE "granted"

\* The answer that sends a user without the permission to /login and clears
\* the cookie.
GateResponseAsLogin(gate) ==
    IF gate = "error" THEN Error("Failed to check permissions", 500)
    ELSE Redirect("/login", TRUE)

\* What the admin handlers answer when the check does not grant.
GateResponse(gate) ==
    IF gate = "error" THEN Error("Failed to check permissions", 500)
    ELSE Error("Access denied", 403)

\* AdminHandler.AssignRole and AdminHandler.RemoveRole after the permission
\* check: the response and the user_roles rows left. assign tells the two apart.
RoleFormResult(db, user, assign, form, fault) ==
    LET userID == Atoi(form.user_id)
        roleID == Atoi(form.role_id)
        same == db.user_roles
    IN  IF form.method # "POST" THEN [resp |-> Error("Method not allowed", 405), rows |-> same]
        ELSE IF form.user_id = "" \/ form.role_id = ""
        THEN [resp |-> Error("User ID and Role ID are required", 400), rows |-> same]
        ELSE IF userID.err # NoError THEN [resp |-> Error("Invalid User ID", 400), rows |-> same]
        ELSE IF roleID.err # NoError THEN [resp |-> Error("Invalid Role ID", 400), rows |-> same]
        ELSE IF fault = "Query"
        THEN [resp |-> Error(IF assign THEN "Failed to assign role" ELSE "Failed to remove role",
                             500),
              rows |-> same]
        ELSE [resp |-> Handled(303, "/admin"),
              rows |-> IF assign
                       THEN AssignRoleRows(db.user_roles, userID.value, roleID.value, user)
                       ELSE RemoveRoleRows(db.user_roles, userID.value, roleID.value)]

\* What a request to a protected route leaves in last.
Served(op, m, resp) ==
    [op |-> op, token |-> m.token, stage |-> m.stage, user |-> m.user,
     status |-> resp.status, location |-> resp.location, cleared |-> resp.cleared,
     next |-> resp.next, body |-> resp.body, err |-> NoError]

\* GET /admin: AuthMiddleware, then AdminHandler.Index
AdminIndex(r, fault) ==
    LET m == AuthMiddleware(sessions, now, DB, r, fault)
        gate == AdminGate(hasPermission(DB, m.user, "manage_roles", fault = "HasPermission"))
        resp == IF m.stage # "next" THEN m.resp
                ELSE IF gate # "granted" THEN GateResponse(gate)
                ELSE IF fault = "Query" THEN Error("Failed to fetch users", 500)
                ELSE Handled(200, "")
    IN  /\ booted
        /\ sessions' = m.reg
        /\ last' = Served("GET /admin", m, resp)
        /\ UNCHANGED <<now, issued, created, destroyed, dbVars, procVars>>

\* A request to /admin/assign-role or /admin/remove-role (assign tells the
\* two apart): AuthMiddleware, then the handler. The registry and the
\* user_roles rows it leaves, and its response.
RoleEndpoint(assign, r, form, fault) ==
    LET m == AuthMiddleware(sessions, now, DB, r, fault)
        gate == AdminGate(hasPermission(DB, m.user, "manage_roles", fault = "HasPermission"))
        h == RoleFormResult(DB, m.user, assign, form, fault)
    IN  IF m.stage # "next" THEN [m |-> m, resp |-> m.resp, rows |-> user_roles]
        ELSE IF gate # "granted" THEN [m |-> m, resp |-> GateResponse(gate), rows |-> user_roles]
        ELSE [m |-> m, resp |-> h.resp, rows |-> h.rows]

\* /admin/assign-role: AuthMiddleware, then AdminHandler.AssignRole
AdminAssignRole(r, form, fault) ==
    LET e == RoleEndpoint(TRUE, r, form, fault) IN
        /\ booted
        /\ sessions' = e.m.reg
        /\ user_roles' = e.rows
        /\ last' = Served("POST /admin/assign-role", e.m, e.resp)
        /\ UNCHANGED <<now, issued, created, destroyed, booted, users, roles, permissions,
                       role_permissions, pdfs, procVars>>

\* /admin/remove-role: AuthMiddleware, then AdminHandler.RemoveRole
AdminRemoveRole(r, form, fault) ==
    LET e == RoleEndpoint(FALSE, r, form, fault) IN
        /\ booted
        /\ sessions' = e.m.reg
        /\ user_roles' = e.rows
        /\ last' = Served("POST /admin/remove-role", e.m, e.resp)
        /\ UNCHANGED <<now, issued, created, destroyed, booted, users, roles, permissions,
                       role_permissions, pdfs, procVars>>

\* GET /library: AuthMiddleware, then LibraryHandler.Index
LibraryIndex(r, fault) ==
    LET m == AuthMiddleware(sessions, now, DB, r, fault)
        resp == IF m.stage # "next" THEN m.resp
                ELSE IF fault = "Query" THEN Error("Failed to fetch PDFs", 500)
                ELSE Handled(200, "")
    IN  /\ booted
        /\ sessions' = m.reg
        /\ last' = Served("GET /library", m, resp)
        /\ UNCHANGED <<now, issued, created, destroyed, dbVars, procVars>>

\* The method and the multipart form of the requests to /library/upload:
\* multipart is whether ParseMultipartForm accepts the body, file the name
\* of the uploaded file ("" for none).
UploadWellFormed == [method |-> "POST", multipart |-> TRUE, title |-> "t", file |-> "a.pdf"]
UploadForms ==
    {UploadWellFormed,
     [UploadWellFormed EXCEPT !.method = "GET"],
     [UploadWellFormed EXCEPT !.multipart = FALSE],
     [UploadWellFormed EXCEPT !.title = ""],
     [UploadWellFormed EXCEPT !.file = ""],
     [UploadWellFormed EXCEPT !.file = "a.txt"]}

\* The step of an upload that fails, if one does: loading the user,
\* saveUploadedFile, or the INSERT of CreatePDF.
UploadFaults == {"none", "GetUser", "Save", "Query"}

\* The calls of /library/upload: any request with the well-formed form and
\* no fault, and a request that presents a cookie with any form or fault.
UploadCalls ==
    {[r |-> r, form |-> UploadWellFormed, fault |-> "none"] : r \in HTTPRequests}
        \cup {[r |-> r, form |-> f, fault |-> "none"] :
                  r \in {q \in HTTPRequests : q.cookie.present}, f \in UploadForms}
        \cup {[r |-> r, form |-> UploadWellFormed, fault |-> x] :
                  r \in {q \in HTTPRequests : q.cookie.present}, x \in UploadFaults}

\* strings.HasSuffix(strings.ToLower(name), ".pdf") on the names used here
HasPDFSuffix(name) == name = "a.pdf"

\* CreatePDF: INSERT INTO pdfs (..., uploaded_by)
CreatePDF(rows, title, filename, uploadedBy) ==
    Append(rows, [title |-> title, filename |-> filename, uploaded_by |-> uploadedBy])

\* LibraryHandler.UploadPDF, called with the user of the context: the
\* response and the pdfs rows left.
UploadPDFResult(db, user, form, fault) ==
    IF form.method # "POST" THEN [resp |-> Error("Method not allowed", 405), rows |-> db.pdfs]
    ELSE IF ~form.multipart THEN [resp |-> Error("Failed to parse form", 400), rows |-> db.pdfs]
    ELSE IF form.title = "" THEN [resp |-> Error("Title is required", 400), rows |-> db.pdfs]
    ELSE IF form.file = "" THEN [resp |-> Error("File is required", 400), rows |-> db.pdfs]
    ELSE IF ~HasPDFSuffix(form.file)
    THEN [resp |-> Error("Only PDF files are allowed", 400), rows |-> db.pdfs]
    ELSE IF fault = "Save" THEN [resp |-> Error("Failed to save file", 500), rows |-> db.pdfs]
    ELSE IF fault = "Query"
    THEN [resp |-> Error("Failed to create PDF record", 500), rows |-> db.pdfs]
    ELSE [resp |-> Handled(303, "/library"),
          rows |-> CreatePDF(db.pdfs, form.title, <<user, form.file>>, user)]

\* /library/upload: AuthMiddleware, then LibraryHandler.UploadPDF
LibraryUpload(r, form, fault) ==
    LET m == AuthMiddleware(sessions, now, DB, r, fault)
        h == UploadPDFResult(DB, m.user, form, fault)
    IN  /\ booted
        /\ Len(pdfs) < MaxPDFs
        /\ sessions' = m.reg
        /\ pdfs' = IF m.stage # "next" THEN pdfs ELSE h.rows
        /\ last' = Served("POST /library/upload", m, IF m.stage # "next" THEN m.resp ELSE h.resp)
        /\ UNCHANGED <<now, issued, created, destroyed, booted, users, roles, permissions,
                       role_permissions, user_roles, procVars>>

\* What a request to an open route leaves in last.
Answered(op, token, user, resp) ==
    [op |-> op, token |-> token, stage |-> "open", user |-> user,
     status |-> resp.status, location |-> resp.location, cleared |-> resp.cleared,
     next |-> resp.next, body |-> resp.body, err |-> NoError]

\* The answer of Login and Register after SetSessionCookie: HX-Redirect with
\* status 200 to an HX-Request, else a redirect to /library.
LoggedIn(hx) == IF hx THEN Handled(200, "/library") ELSE Handled(303, "/library")

\* POST /login (AuthHandler.Login); passwordOK is what CheckPassword returns.
Login(username, passwordOK, hx) ==
    LET u == GetUserByUsername(DB, username) IN
        /\ booted
        /\ IF u.err # NoError \/ ~passwordOK
           THEN /\ last' = Answered("POST /login", "", 0,
                                    Error("Invalid username or password", 400))
                /\ UNCHANGED sessVars
           ELSE \E token \in generateToken(issued) :
                   /\ sessions' = CreateSessionMap(sessions, now, token, u.id, username)
                   /\ issued' = issued \cup {token}
                   /\ last' = Answered("POST /login", token, u.id, LoggedIn(hx))
                   /\ UNCHANGED <<now, created, destroyed>>
        /\ UNCHANGED <<dbVars, procVars>>

\* POST /register (AuthHandler.Register); formOK is whether the fields pass
\* the checks of the form (none empty, passwords equal, six characters).
Register(username, email, formOK, hx) ==
    LET r == CreateUserResult(DB, username, email)
        u == GetUserByUsername(r.db, username)
        resp == IF ~formOK THEN Error("All fields are required", 400)
                ELSE IF GetUserByUsername(DB, username).err = NoError
                THEN Error("Username already exists", 400)
                ELSE IF r.err = "UNIQUE constraint failed"
                THEN Error("Username or email already exists", 400)
                ELSE IF r.err # NoError THEN Error("Failed to create user", 500)
                ELSE LoggedIn(hx)
    IN  /\ booted
        /\ IF resp.next
           THEN /\ SetDB(r.db)
                /\ \E token \in generateToken(issued) :
                      /\ sessions' = CreateSessionMap(sessions, now, token, u.id, username)
                      /\ issued' = issued \cup {token}
                      /\ last' = Answered("POST /register", token, u.id, resp)
                /\ UNCHANGED <<now, created, destroyed, booted>>
           ELSE /\ last' = Answered("POST /register", "", 0, resp)
                /\ UNCHANGED <<sessVars, dbVars>>
        /\ UNCHANGED procVars

\* /auth/logout (AuthHandler.Logout)
Logout(r) ==
    LET ext == GetSessionToken(r) IN
        /\ booted
        /\ sessions' = IF ext.err = NoError THEN MapDelete(sessions, ext.token) ELSE sessions
        /\ last' = Answered("/auth/logout", ext.token, 0,
                            [Redirect("/", TRUE) EXCEPT !.next = TRUE])
        /\ UNCHANGED <<now, issued, created, destroyed, dbVars, procVars>>

\* GET / (main's landing handler): to /library with a valid session, else
\* the landing page
Home(r) ==
    LET ext == GetSessionToken(r)
        v == ValidateSessionResult(sessions, now, ext.token)
        in == ext.err = NoError /\ v.err = NoError
    IN  /\ booted
        /\ sessions' = IF ext.err = NoError THEN v.reg ELSE sessions
        /\ last' = Answered("GET /", ext.token, IF in THEN v.session.UserID ELSE 0,
                            IF in THEN Handled(303, "/library") ELSE Handled(200, ""))
        /\ UNCHANGED <<now, issued, created, destroyed, dbVars, procVars>>

\* The sweep goroutine runs between two requests.
Sweep ==
    /\ booted
    /\ sessions' = CleanupMap(sessions, now)
    /\ last' = Answered("sweep", "", 0, Handled(0, ""))
    /\ UNCHANGED <<now, issued, created, destroyed, dbVars, procVars>>

\* Time passes between two requests. The clock is read against the expiry of
\* sessions only, so it is left alone while the registry is empty.
Wait ==
    /\ now < HTTPMaxTime
    /\ sessions # << >>
    /\ now' = now + 1
    /\ UNCHANGED <<sessions, issued, created, destroyed, last, dbVars, procVars>>

\* The process starts, once: NewDatabase, NewSessionManager, ListenAndServe.
ServerStart == ~booted /\ Bootstrap

\* ------------------------------------- POST /register, statement by statement

\* net/http serves two registrations in two goroutines. The statements of
\* AuthHandler.Register that touch the store: the existence check, CreateUser's
\* transaction (its INSERTs, then its COMMIT), and the auto-login.
RegisterForms == {[username |-> u, email |-> e] : u \in Usernames, e \in Emails}

\* What a finished registration of goroutine p leaves in last.
RegisterAnswer(p, username, token, user, resp) ==
    [op |-> "POST /register", proc |-> p, username |-> username, token |-> token,
     stage |-> "open", user |-> user, status |-> resp.status, location |-> resp.location,
     cleared |-> resp.cleared, next |-> resp.next, body |-> resp.body, err |-> NoError]

\* Whether another goroutine's transaction holds SQLite's write lock: it has
\* run its INSERTs and not yet committed.
WriteLocked(p) == \E q \in Handlers \ {p} : pc[q] = "Register:commit"

\* The request arrives with a form that passes the field checks.
RegisterStart(p, form) ==
    /\ booted
    /\ pc[p] = "idle"
    /\ Goto(p, "Register:check", [username |-> form.username, email |-> form.email])
    /\ UNCHANGED <<sessVars, last, crashed, dbVars>>

\* _, err := h.db.GetUserByUsername(username); if err == nil {"Username already exists"}
RegisterCheck(p) ==
    /\ pc[p] = "Register:check"
    /\ IF GetUserByUsername(DB, local[p].username).err = NoError
       THEN /\ Goto(p, "idle", NoLocal)
            /\ last' = RegisterAnswer(p, local[p].username, "", 0,
                                       Error("Username already exists", 400))
       ELSE /\ Goto(p, "Register:create", local[p])
            /\ UNCHANGED last
    /\ UNCHANGED <<sessVars, crashed, dbVars>>

\* h.db.CreateUser up to its COMMIT: tx.Begin and the two INSERTs. While
\* another transaction holds the write lock the INSERT waits, and fails with
\* "database is locked" when the wait times out.
RegisterCreate(p) ==
    LET r == CreateUserResult(DB, local[p].username, local[p].email) IN
        /\ pc[p] = "Register:create"
        /\ IF WriteLocked(p)
           THEN /\ Goto(p, "idle", NoLocal)
                /\ last' = RegisterAnswer(p, local[p].username, "", 0,
                                           Error("Failed to create user", 500))
           ELSE IF r.err = "UNIQUE constraint failed"
           THEN /\ Goto(p, "idle", NoLocal)
                /\ last' = RegisterAnswer(p, local[p].username, "", 0,
                                           Error("Username or email already exists", 400))
           ELSE IF r.err # NoError
           THEN /\ Goto(p, "idle", NoLocal)
                /\ last' = RegisterAnswer(p, local[p].username, "", 0,
                                           Error("Failed to create user", 500))
           ELSE /\ Goto(p, "Register:commit", local[p])
                /\ UNCHANGED last
        /\ UNCHANGED <<sessVars, crashed, dbVars>>

\* return tx.Commit(): the rows of the transaction become visible.
RegisterCommit(p) ==
    /\ pc[p] = "Register:commit"
    /\ SetDB(CreateUserResult(DB, local[p].username, local[p].email).db)
    /\ Goto(p, "Register:session", local[p])
    /\ UNCHANGED <<sessVars, last, crashed, booted>>

\* The auto-login: GetUserByUsername, CreateSession, SetSessionCookie, redirect.
RegisterSession(p) ==
    LET u == GetUserByUsername(DB, local[p].username) IN
        /\ pc[p] = "Register:session"
        /\ \E token \in generateToken(issued) :
              /\ sessions' = CreateSessionMap(sessions, now, token, u.id, local[p].username)
              /\ issued' = issued \cup {token}
              /\ last' = RegisterAnswer(p, local[p].username, token, u.id, LoggedIn(FALSE))
        /\ Goto(p, "idle", NoLocal)
        /\ UNCHANGED <<now, created, destroyed, crashed, dbVars>>

\* ------------------------------------------------------- specifications

\* The session manager called by one request at a time.
NextSession ==
    \/ \E u \in UserArgs : CreateSession(u) /\ UNCHANGED <<dbVars, procVars>>
    \/ \E token \in TokenArgs : ValidateSession(token) /\ UNCHANGED <<dbVars, procVars>>
    \/ \E token \in TokenArgs : DestroySession(token) /\ UNCHANGED <<dbVars, procVars>>
    \/ CleanupExpiredSessions /\ UNCHANGED <<dbVars, procVars>>
    \/ Tick /\ UNCHANGED <<dbVars, procVars>>

SpecSession == Init /\ [][NextSession]_vars

\* The same, with the sweep goroutine of main scheduled for ever: its loop
\* (sleep an hour, CleanupExpiredSessions) has no exit, so a sweep that would
\* change the registry is not put off for ever.
SweepStep == CleanupExpiredSessions /\ UNCHANGED <<dbVars, procVars>>

SpecSweep == Init /\ [][NextSession]_vars /\ WF_vars(SweepStep)

\* The session manager as the server runs it: request goroutines and the
\* sweep goroutine, interleaved statement by statement.
NextRace ==
    \/ \E p \in Handlers, u \in RaceUserArgs : CallCreateSession(p, u)
    \/ \E p \in Handlers : StoreSession(p)
    \/ \E p \in Handlers, token \in TokenArgs : CallValidateSession(p, token)
    \/ \E p \in Handlers : LookupSession(p)
    \/ \E p \in Handlers : CheckSession(p)
    \/ \E p \in Handlers, token \in TokenArgs : CallDestroySession(p, token)
    \/ \E p \in Handlers : DeleteSession(p)
    \/ CallCleanup
    \/ RangeStep
    \/ EndCleanup
    \/ RuntimeThrow
    \/ ClockTick

SpecRace == Init /\ [][NextRace]_vars

\* The store across process starts, registrations and role changes.
NextDB ==
    \/ \E username \in Usernames, email \in Emails : LegacyCreateUser(username, email)
    \/ Bootstrap
    \/ \E username \in Usernames, email \in Emails : CreateUser(username, email)
    \/ \E userID \in UserIDArgs, roleID \in RoleIDArgs, assignedBy \in GranterArgs :
          AssignRole(userID, roleID, assignedBy)
    \/ \E userID \in UserIDArgs, roleID \in RoleIDArgs : RemoveRole(userID, roleID)
    \/ \E userID \in UserIDArgs, permissionName \in PermissionArgs, fails \in BOOLEAN :
          HasPermissionCall(userID, permissionName, fails)

SpecDB == Init /\ [][NextDB]_vars

\* Token extraction on any request.
NextToken == GetSessionTokenCall

SpecToken == InitToken /\ [][NextToken]_vars

\* The server of one process run, serving one request at a time.
NextHTTP ==
    \/ \E a \in LegacyArgs : LegacyCreateUser(a.username, a.email)
    \/ ServerStart
    \/ \E a \in RegisterArgs, formOK, hx \in BOOLEAN : Register(a.username, a.email, formOK, hx)
    \/ \E a \in LegacyArgs \cup RegisterArgs, passwordOK, hx \in BOOLEAN : Login(a.username, passwordOK, hx)
    \/ \E r \in HTTPRequests : Logout(r)
    \/ \E r \in HTTPRequests : Home(r)
    \/ \E c \in RouteCalls : LibraryIndex(c.r, c.fault)
    \/ \E c \in RouteCalls : AdminIndex(c.r, c.fault)
    \/ \E c \in RoleCalls : AdminAssignRole(c.r, c.form, c.fault)
    \/ \E c \in RoleCalls : AdminRemoveRole(c.r, c.form, c.fault)
    \/ Sweep
    \/ Wait

SpecHTTP == Init /\ [][NextHTTP]_vars

\* The library routes of one process run: accounts, logins and uploads.
NextLibrary ==
    \/ \E a \in LegacyArgs : LegacyCreateUser(a.username, a.email)
    \/ ServerStart
    \/ \E a \in RegisterArgs, formOK, hx \in BOOLEAN : Register(a.username, a.email, formOK, hx)
    \/ \E a \in LegacyArgs \cup RegisterArgs, passwordOK, hx \in BOOLEAN :
          Login(a.username, passwordOK, hx)
    \/ \E c \in RouteCalls : LibraryIndex(c.r, c.fault)
    \/ \E c \in UploadCalls : LibraryUpload(c.r, c.form, c.fault)
    \/ Wait

SpecLibrary == Init /\ [][NextLibrary]_vars

\* Registrations served by two goroutines, interleaved statement by statement.
NextRegister ==
    \/ ServerStart
    \/ \E p \in Handlers, form \in RegisterForms : RegisterStart(p, form)
    \/ \E p \in Handlers : RegisterCheck(p)
    \/ \E p \in Handlers : RegisterCreate(p)
    \/ \E p \in Handlers : RegisterCommit(p)
    \/ \E p \in Handlers : RegisterSession(p)

SpecRegister == Init /\ [][NextRegister]_vars

\* ------------------------------------------------------------- claims

\* Tokens CreateSession returned that DestroySession was not called on.
LiveIssued == issued \ destroyed

\* C2 as stated: a session created at time c and not destroyed validates
\* exactly when now < c + TTL; at now = c + TTL ValidateSession fails.
C2_StrictlyBeforeExpiry ==
    (last.op = "ValidateSession" /\ last.token \in LiveIssued)
        => ((last.err = NoError) <=> (now < created[last.token] + TTL))

\* C2 amended: a session created at time c and not destroyed validates exactly
\* when now <= c + TTL (at the boundary instant it still validates), and
\* every failure is ErrInvalidToken.
C2_ValidUntilExpiryInclusive ==
    /\ \A token \in LiveIssued :
          LET r == ValidateSessionResult(sessions, now, token) IN
              /\ (r.err = NoError) <=> (now <= created[token] + TTL)
              /\ r.err \in {NoError, ErrInvalidToken}
    /\ (last.op = "ValidateSession" /\ last.token \in LiveIssued)
          => /\ (last.err = NoError) <=> (now <= created[last.token] + TTL)
             /\ last.err \in {NoError, ErrInvalidToken}

\* C2 witness: ValidateSession has just succeeded at the boundary instant.
C2_Witness ==
    /\ last.op = "ValidateSession"
    /\ last.token \in LiveIssued
    /\ last.err = NoError
    /\ now = created[last.token] + TTL

\* C3: ValidateSession of a token CreateSession never returned fails with
\* ErrInvalidToken and leaves the registry as it was.
C3_UnissuedTokenRejected ==
    [][(last'.op = "ValidateSession" /\ last'.token \notin issued')
          => (last'.err = ErrInvalidToken /\ sessions' = sessions)]_vars

\* C3 witness: an unissued token was just rejected while the registry holds an
\* expired session.
C3_Witness ==
    /\ last.op = "ValidateSession"
    /\ last.token \notin issued
    /\ last.err = ErrInvalidToken
    /\ \E k \in DOMAIN sessions : After(now, sessions[k].ExpiresAt)

\* The identities that hold the role named roleName.
Holders(db, roleName) ==
    {u \in 1..Len(db.users) : getRoleIDByName(db, roleName) \in GetUserRoles(db, u)}

\* The user_roles rows of the role named roleName.
RowsOfRole(db, roleName) ==
    {ur \in db.user_roles : ur.role_id = getRoleIDByName(db, roleName)}

\* C4: once the store is bootstrapped, whatever registrations, AssignRole and
\* RemoveRole calls follow, if an identity exists then one holds admin.
C4_NeverWithoutAdmin ==
    (booted /\ Len(users) > 0) => Holders(DB, "admin") # {}

\* C5: right after a bootstrap pass every identity has a role, and if an
\* identity exists then one holds admin.
C5_AfterBootstrapRolesAndAdmin ==
    last.op = "Bootstrap"
        => /\ \A u \in 1..Len(users) : GetUserRoles(DB, u) # {}
           /\ Len(users) > 0 => Holders(DB, "admin") # {}

\* C6: a bootstrap pass on a store a bootstrap pass has just left changes no
\* table, whatever order the users are read in.
C6_BootstrapIdempotent ==
    last.op = "Bootstrap" => BootstrapOutcomes(DB) = {DB}

\* C6 witness: bootstrap has just run on a store with two users and a grant
\* that names its granter.
C6_Witness ==
    /\ last.op = "Bootstrap"
    /\ Len(users) = 2
    /\ \E ur \in user_roles : ur.assigned_by # NULL

\* C7: a bootstrap pass removes no assignment; it adds an admin assignment only
\* when no identity holds admin, and then to the earliest-created identity
\* (id 1) alone.
C7_PromotesEarliestOnly ==
    [][last'.op = "Bootstrap"
          => LET added == RowsOfRole(DB', "admin") \ user_roles IN
             /\ user_roles \subseteq user_roles'
             /\ Holders(DB, "admin") # {} => added = {}
             /\ added # {} =>
                   /\ Holders(DB, "admin") = {}
                   /\ added = {[user_id |-> 1, role_id |-> getRoleIDByName(DB', "admin"),
                                assigned_by |-> NULL]}]_vars

\* C8: with users A (id 1) then B (id 2) created on a store with no users and
\* no admin assignment, a bootstrap pass leaves A the admin and B with role
\* user only; with B the only admin, a bootstrap pass leaves B the only admin.
C8_ScenarioAThenB ==
    [][(last'.op = "Bootstrap" /\ Len(users) = 2)
          => /\ (\A ur \in user_roles : ur.role_id # getRoleIDByName(DB', "admin"))
                   => /\ Holders(DB', "admin") = {1}
                      /\ GetUserRoles(DB', 2) = {getRoleIDByName(DB', "user")}
             /\ Holders(DB, "admin") = {2} => Holders(DB', "admin") = {2}]_vars

\* Whether a role assigned to the user carries a permission of that name.
RoleGrants(db, userID, permissionName) ==
    \E r \in 1..Len(db.roles) :
        /\ \E ur \in db.user_roles : ur.user_id = userID /\ ur.role_id = r
        /\ \E p \in 1..Len(db.permissions) :
              /\ db.permissions[p] = permissionName
              /\ [role_id |-> r, permission_id |-> p] \in db.role_permissions

\* C9: HasPermission answers true exactly when a role assigned to the user
\* carries a permission of that name (and false with the error when the
\* query fails).
C9_HasPermissionIffRoleGrants ==
    /\ \A u \in UserIDArgs, p \in PermissionArgs :
          HasPermission(DB, u, p, FALSE).value <=> RoleGrants(DB, u, p)
    /\ last.op = "HasPermission"
          => IF last.err = NoError
             THEN last.value <=> RoleGrants(DB, last.user, last.perm)
             ELSE last.value = FALSE

\* C9 witness: HasPermission has just answered true for a user, while the
\* other user holds a role and lacks that permission.
C9_Witness ==
    /\ last.op = "HasPermission"
    /\ last.err = NoError
    /\ last.value
    /\ \E u \in UserIDArgs :
          /\ u # last.user
          /\ GetUserRoles(DB, u) # {}
          /\ ~HasPermission(DB, u, last.perm, FALSE).value

\* The six permissions of the catalog.
Catalog == {DefaultPermissions[i] : i \in 1..Len(DefaultPermissions)}

\* C10: on a bootstrapped store an identity whose only role is user has
\* view_pdf and none of the other five permissions, and an identity that
\* holds admin has all six.
C10_BaselinePermissions ==
    booted =>
        \A u \in 1..Len(users) :
            /\ GetUserRoles(DB, u) = {getRoleIDByName(DB, "user")}
                  => \A p \in Catalog :
                        HasPermission(DB, u, p, FALSE).value <=> (p = "view_pdf")
            /\ getRoleIDByName(DB, "admin") \in GetUserRoles(DB, u)
                  => \A p \in Catalog : HasPermission(DB, u, p, FALSE).value

\* C10 witness: HasPermission has just denied manage_roles to an identity whose
\* only role is user, while another identity holds admin.
C10_Witness ==
    /\ last.op = "HasPermission"
    /\ last.perm = "manage_roles"
    /\ last.err = NoError
    /\ ~last.value
    /\ last.user \in 1..Len(users)
    /\ GetUserRoles(DB, last.user) = {getRoleIDByName(DB, "user")}
    /\ Holders(DB, "admin") # {}

\* C1: no two goroutines are inside the session registry at the same time.
C1_RegistryMutualExclusion ==
    \A p, q \in Procs : (p # q) => ~(InRegistry(p) /\ InRegistry(q))

\* C11: every session in the registry expires at its creation time + TTL; no
\* step changes the UserID, Username or ExpiresAt of a session that stays in
\* the registry, and a successful ValidateSession leaves the registry as it was.
C11_ExpiryFixedAtCreation ==
    [][/\ \A k \in DOMAIN sessions' : sessions'[k].ExpiresAt = created'[k] + TTL
       /\ \A k \in DOMAIN sessions \cap DOMAIN sessions' : sessions'[k] = sessions[k]
       /\ (last'.op = "ValidateSession" /\ last'.err = NoError)
             => /\ sessions' = sessions
                /\ last'.session = sessions[last'.token]]_vars

\* C11 witness: ValidateSession has just succeeded on a session created at an
\* earlier instant, and the session still expires at its creation time + TTL.
C11_Witness ==
    /\ last.op = "ValidateSession"
    /\ last.err = NoError
    /\ now > created[last.token]
    /\ sessions[last.token].ExpiresAt = created[last.token] + TTL

\* C12: CleanupExpiredSessions removes exactly the sessions whose expiry is
\* before the time of the sweep, and leaves the others as they were.
C12_SweepRemovesExactlyExpired ==
    [][last'.op = "CleanupExpiredSessions"
          => /\ DOMAIN sessions' = {k \in DOMAIN sessions : now <= sessions[k].ExpiresAt}
             /\ \A k \in DOMAIN sessions' : sessions'[k] = sessions[k]]_vars

\* C12 witness: a sweep has just removed an expired session and kept one that
\* expires at this very instant.
C12_Witness ==
    /\ last.op = "CleanupExpiredSessions"
    /\ last.removed # {}
    /\ \E k \in DOMAIN sessions : sessions[k].ExpiresAt = now

\* C13: ValidateSession of a session whose expiry has passed fails with
\* ErrInvalidToken, swept or not, and removes that entry alone; a step that is
\* not a sweep and not a ValidateSession or DestroySession of the token leaves
\* an expired entry in the registry.
C13_LazyExpiry ==
    [][/\ (last'.op = "ValidateSession" /\ last'.token \in issued
              /\ now > created[last'.token] + TTL)
             => /\ last'.err = ErrInvalidToken
                /\ DOMAIN sessions' = DOMAIN sessions \ {last'.token}
                /\ \A k \in DOMAIN sessions' : sessions'[k] = sessions[k]
       /\ \A k \in DOMAIN sessions :
             (/\ now > sessions[k].ExpiresAt
              /\ last'.op # "CleanupExpiredSessions"
              /\ ~(last'.op \in {"ValidateSession", "DestroySession"} /\ last'.token = k))
                => (k \in DOMAIN sessions' /\ sessions'[k] = sessions[k])]_vars

\* C13 witness: ValidateSession has just rejected and evicted an expired
\* session, while another expired session is still in the registry.
C13_Witness ==
    /\ last.op = "ValidateSession"
    /\ last.token \in LiveIssued
    /\ last.err = ErrInvalidToken
    /\ now > created[last.token] + TTL
    /\ last.token \notin DOMAIN sessions
    /\ \E k \in DOMAIN sessions : now > sessions[k].ExpiresAt

\* C14: CreateSession(userID, username) returns a token and no error, and
\* while the token is not destroyed and TTL has not elapsed ValidateSession
\* of it succeeds with a session of that userID and username that expires at
\* the creation time + TTL.
C14_CreateThenValidate ==
    [][/\ \A u \in UserArgs :
             (last'.op = "CreateSession" /\ CreateSession(u))
                => LET r == ValidateSessionResult(sessions', now', last'.token) IN
                   /\ last'.err = NoError
                   /\ last'.token \in Tokens
                   /\ r.err = NoError
                   /\ r.session = [UserID |-> u.UserID, Username |-> u.Username,
                                   ExpiresAt |-> now + TTL]
       /\ \A k \in issued' \ destroyed' :
             now' < created'[k] + TTL
                => LET r == ValidateSessionResult(sessions', now', k) IN
                   /\ r.err = NoError
                   /\ r.session.ExpiresAt = created'[k] + TTL
                   /\ k \in DOMAIN sessions => r.session = sessions[k]]_vars

\* C14 witness: CreateSession has just returned a token for a user while the
\* registry holds an older session of the other user.
C14_Witness ==
    /\ last.op = "CreateSession"
    /\ last.err = NoError
    /\ last.token \in DOMAIN sessions
    /\ \E k \in DOMAIN sessions :
          /\ created[k] < created[last.token]
          /\ sessions[k].UserID # sessions[last.token].UserID

\* C15: DestroySession raises nothing and removes the entry of its token and
\* no other; on a token that is not in the registry (never issued, or already
\* destroyed) it leaves the registry as it was.
C15_DestroyIdempotent ==
    [][last'.op = "DestroySession"
          => /\ last'.err = NoError
             /\ DOMAIN sessions' = DOMAIN sessions \ {last'.token}
             /\ \A k \in DOMAIN sessions' : sessions'[k] = sessions[k]
             /\ last'.token \notin DOMAIN sessions => sessions' = sessions
             /\ MapDelete(sessions', last'.token) = sessions']_vars

\* C15 witness: DestroySession has just been called on a token that an earlier
\* call had already destroyed, and the session of the other token is still there.
C15_Witness ==
    /\ last.op = "DestroySession"
    /\ ~last.existed
    /\ last.token \in issued
    /\ last.token \notin DOMAIN sessions
    /\ now <= created[last.token] + TTL
    /\ \E k \in DOMAIN sessions : k # last.token

\* The user_roles rows of the pair (userID, roleID).
RowsOfPair(rows, userID, roleID) ==
    {ur \in rows : ur.user_id = userID /\ ur.role_id = roleID}

\* C20: user_roles never holds two rows of one (user, role) pair; AssignRole
\* returns no error, on a pair that is assigned already as well, leaves the
\* pair one row whose granter is that of this call, and leaves the rows of the
\* other pairs as they were.
C20_AssignRoleUpsert ==
    [][/\ \A ur \in user_roles' :
             Cardinality(RowsOfPair(user_roles', ur.user_id, ur.role_id)) = 1
       /\ last'.op = "AssignRole"
             => /\ last'.err = NoError
                /\ RowsOfPair(user_roles', last'.user, last'.role) =
                      {[user_id |-> last'.user, role_id |-> last'.role,
                        assigned_by |-> last'.by]}
                /\ user_roles' \ RowsOfPair(user_roles', last'.user, last'.role) =
                      user_roles \ RowsOfPair(user_roles, last'.user, last'.role)]_vars

\* C20 witness: AssignRole has just been called with a granter on a pair that
\* was assigned already.
C20_Witness ==
    /\ last.op = "AssignRole"
    /\ last.replaced
    /\ last.by # NULL
    /\ last.err = NoError
    /\ Cardinality(RowsOfPair(user_roles, last.user, last.role)) = 1

\* Whether a header is the piece "Bearer", one space, and pieces without a
\* space (possibly none).
IsBearer(h) ==
    /\ Len(h) >= 2
    /\ h[1] = "Bearer"
    /\ h[2] = " "
    /\ \A i \in 3..Len(h) : h[i] # " "

\* C16: token extraction returns the value of the session_token cookie when
\* the cookie is present, whatever the header; without the cookie it fails with
\* ErrNoAuthHeader on an empty header, with ErrInvalidAuthType on a header
\* that is not "Bearer", one space, and a text without spaces, and otherwise
\* returns that text.
C16_TokenExtraction ==
    last.op = "GetSessionToken"
        => IF last.cookie.present
           THEN last.err = NoError /\ last.token = last.cookie.value
           ELSE IF last.header = << >>
           THEN last.err = ErrNoAuthHeader
           ELSE IF ~IsBearer(last.header)
           THEN last.err = ErrInvalidAuthType
           ELSE /\ last.err = NoError
                /\ last.token = Join(SubSeq(last.header, 3, Len(last.header)))

\* C16 witness: the request carries both the cookie and a well-formed Bearer
\* header with another token, and the cookie's value was returned.
C16_Witness ==
    /\ last.op = "GetSessionToken"
    /\ last.cookie = [present |-> TRUE, value |-> "tok1"]
    /\ last.header = <<"Bearer", " ", "abc">>
    /\ last.token = "tok1"
    /\ last.err = NoError

\* The protected routes, and those of AdminHandler among them.
AdminOps == {"GET /admin", "POST /admin/assign-role", "POST /admin/remove-role"}
ProtectedOps == AdminOps \cup {"GET /library"}

\* C17: a request the auth middleware rejects (no token could be extracted,
\* ValidateSession failed, or the user could not be loaded) is redirected to
\* /login with the session cookie cleared, and the protected handler is not
\* called.
C17_RejectionClearsCookie ==
    (last.op \in ProtectedOps /\ last.stage \in {"token", "session", "user"})
        => /\ last.status = 303
           /\ last.location = "/login"
           /\ last.cleared
           /\ ~last.next

\* Whether the step is a call of an admin endpoint in which the storage call
\* named fault fails (fault "none": no storage call fails).
AdminCallWith(fault) ==
    \/ \E c \in RouteCalls : c.fault = fault /\ AdminIndex(c.r, c.fault)
    \/ \E c \in RoleCalls : c.fault = fault /\ AdminAssignRole(c.r, c.form, c.fault)
    \/ \E c \in RoleCalls : c.fault = fault /\ AdminRemoveRole(c.r, c.form, c.fault)

\* C18: when the permission check of an admin endpoint fails at the storage
\* layer, the request ends with status 500, which is not the 403 "Access
\* denied" answer, and no user_roles row is added or removed.
C18_PermissionErrorFailsClosed ==
    [][(last'.op \in AdminOps /\ last'.stage = "next" /\ AdminCallWith("HasPermission"))
          => /\ last'.status = 500
             /\ last'.body # "Access denied"
             /\ user_roles' = user_roles]_vars

\* C18 witness: the permission check of an administrator's well-formed
\* assign-role request has just failed at the storage layer, and the
\* assignment the form asks for is not in the store.
C18_Witness ==
    /\ last.op = "POST /admin/assign-role"
    /\ last.stage = "next"
    /\ last.status = 500
    /\ last.body = "Failed to check permissions"
    /\ HasPermission(DB, last.user, "manage_roles", FALSE).value
    /\ RowsOfPair(user_roles, 2, 1) = {}

\* C19: a request to an admin endpoint by an authenticated user no role of
\* whom carries manage_roles is answered 403 and not redirected, the registry
\* is left as it was, the cookie is not cleared, and the token still validates.
C19_ForbiddenKeepsSession ==
    [][(last'.op \in AdminOps /\ last'.stage = "next"
           /\ ~RoleGrants(DB, last'.user, "manage_roles") /\ AdminCallWith("none"))
          => /\ last'.status = 403
             /\ last'.location = ""
             /\ ~last'.cleared
             /\ sessions' = sessions
             /\ user_roles' = user_roles
             /\ ValidateSessionResult(sessions', now', last'.token).err = NoError]_vars

\* C19 witness: a user whose only role is user has just been refused at
\* /admin/remove-role while another user is an administrator, and the token
\* is still in the registry.
C19_Witness ==
    /\ last.op = "POST /admin/remove-role"
    /\ last.stage = "next"
    /\ last.status = 403
    /\ last.token \in DOMAIN sessions
    /\ GetUserRoles(DB, last.user) = {getRoleIDByName(DB, "user")}
    /\ Holders(DB, "admin") # {}

\* What the caller of ValidateSession and the client behind the auth
\* middleware see when token is presented in this state.
Observed(token) ==
    LET v == ValidateSessionResult(sessions, now, token)
        m == AuthMiddleware(sessions, now, DB, [cookie |-> Cookie(token), header |-> << >>],
                            "none")
    IN  [session |-> v.session, err |-> v.err, resp |-> m.resp]

\* C21: a token that was never issued, one that was destroyed and one that
\* has expired are answered alike: ValidateSession returns no session and
\* ErrInvalidToken, and the middleware clears the cookie and redirects to /login.
C21_InvalidTokensAlike ==
    /\ \A token \in TokenArgs :
          (\/ token \notin issued
           \/ token \in destroyed
           \/ token \in LiveIssued /\ now > created[token] + TTL)
             => Observed(token) = [session |-> NoSession, err |-> ErrInvalidToken,
                                   resp |-> Redirect("/login", TRUE)]
    /\ (last.op = "ValidateSession" /\ last.err # NoError)
          => (last.err = ErrInvalidToken /\ last.session = NoSession)

\* C21 witness: ValidateSession has just rejected an expired token, while
\* the other issued token is destroyed and a third one was never issued.
C21_Witness ==
    /\ last.op = "ValidateSession"
    /\ last.err = ErrInvalidToken
    /\ last.token \in LiveIssued
    /\ now > created[last.token] + TTL
    /\ \E k \in destroyed \cap issued : k # last.token /\ now <= created[k] + TTL
    /\ \E k \in TokenArgs : k \notin issued

\* The two endpoints that change the user-role assignments.
RoleOps == {"POST /admin/assign-role", "POST /admin/remove-role"}

\* C22: a request to an admin endpoint changes the user-role assignments
\* only when its token passed ValidateSession for this request, the session's
\* user was loaded, and that user held manage_roles when the handler checked;
\* and then the endpoint is assign-role or remove-role, sent by POST.
C22_RoleChangeNeedsManageRoles ==
    [][(last'.op \in AdminOps /\ user_roles' # user_roles)
          => LET v == ValidateSessionResult(sessions, now, last'.token) IN
             /\ last'.op \in RoleOps
             /\ last'.stage = "next"
             /\ v.err = NoError
             /\ v.session.UserID = last'.user
             /\ RoleGrants(DB, last'.user, "manage_roles")
             /\ last'.status = 303
             /\ \E c \in RoleCalls :
                   /\ c.form.method = "POST"
                   /\ \/ AdminAssignRole(c.r, c.form, c.fault)
                      \/ AdminRemoveRole(c.r, c.form, c.fault)]_vars

\* C22 witness: an administrator's assign-role request has just given role 1
\* to user 2, with the administrator recorded as the granter.
C22_Witness ==
    /\ last.op = "POST /admin/assign-role"
    /\ last.stage = "next"
    /\ last.status = 303
    /\ last.token \in DOMAIN sessions
    /\ sessions[last.token].UserID = last.user
    /\ RoleGrants(DB, last.user, "manage_roles")
    /\ [user_id |-> 2, role_id |-> 1, assigned_by |-> last.user] \in user_roles

\* C24: Logout of a request whose token (cookie first, else Bearer) is T
\* leaves T out of the registry and the other sessions as they were; a token
\* that was issued and is out of the registry never returns to it, and the
\* auth middleware rejects every request that presents it.
C24_LogoutRevokesToken ==
    [][/\ (last'.op = "/auth/logout" /\ last'.token # "")
             => /\ last'.token \notin DOMAIN sessions'
                /\ DOMAIN sessions' = DOMAIN sessions \ {last'.token}
                /\ \A k \in DOMAIN sessions' : sessions'[k] = sessions[k]
       /\ \A token \in issued \ DOMAIN sessions :
             /\ token \notin DOMAIN sessions'
             /\ LET r == [cookie |-> Cookie(token), header |-> << >>]
                    m == AuthMiddleware(sessions', now', DB', r, "none")
                IN  /\ m.stage = "session"
                    /\ m.resp = Redirect("/login", TRUE)]_vars

\* C24 witness: Logout has just removed a session of a user who has
\* another session, which is still in the registry and has not expired.
C24_Witness ==
    /\ last.op = "/auth/logout"
    /\ last.token \in issued
    /\ last.token \notin DOMAIN sessions
    /\ now <= TTL
    /\ \E k \in DOMAIN sessions :
          /\ \A j \in DOMAIN sessions : sessions[j].UserID = sessions[k].UserID
          /\ ValidateSessionResult(sessions, now, k).err = NoError
          /\ Len(users) = 1

\* C27: the permission check of an admin request reads the assignments the
\* store holds when the request is served: unless the check itself fails at
\* the storage layer (status 500), a user with a valid session is answered
\* 403 exactly when no role assigned to the user at that moment carries
\* manage_roles, whenever the session was created.
C27_ChecksCurrentAssignments ==
    [][(last'.op \in AdminOps /\ last'.stage = "next" /\ now' = now
           /\ last'.body # "Failed to check permissions")
          => /\ (last'.status = 403) <=> ~RoleGrants(DB, last'.user, "manage_roles")
             /\ (last'.body = "Access denied") <=> (last'.status = 403)
             /\ ValidateSessionResult(sessions, now, last'.token).session.UserID = last'.user]_vars

\* C27 witness: user 2, whom user 1 granted role admin, has just been served
\* GET /admin under the one token ever issued to user 2.
C27_Witness ==
    /\ last.op = "GET /admin"
    /\ last.stage = "next"
    /\ last.status = 200
    /\ last.user = 2
    /\ [user_id |-> 2, role_id |-> getRoleIDByName(DB, "admin"), assigned_by |-> 1]
          \in user_roles
    /\ \E k \in DOMAIN sessions : k # last.token /\ sessions[k].UserID = 1

\* C28: CreateSession adds one entry under a token that was not in the
\* registry and leaves every earlier entry, those of the same user included,
\* as it was; a step that removes the entry of one token (DestroySession, or
\* ValidateSession of an expired one) leaves the entries of the other tokens
\* as they were, and those that have not expired still validate.
C28_SessionsIndependent ==
    [][/\ last'.op = "CreateSession"
             => /\ last'.token \notin DOMAIN sessions
                /\ DOMAIN sessions' = DOMAIN sessions \cup {last'.token}
                /\ \A k \in DOMAIN sessions : sessions'[k] = sessions[k]
       /\ last'.op \in {"DestroySession", "ValidateSession"}
             => \A k \in DOMAIN sessions \ {last'.token} :
                   /\ k \in DOMAIN sessions'
                   /\ sessions'[k] = sessions[k]
                   /\ now' <= created[k] + TTL
                         => ValidateSessionResult(sessions', now', k).err = NoError]_vars

\* C28 witness: CreateSession has just returned a second token to a user
\* whose earlier session is still in the registry and still validates.
C28_Witness ==
    /\ last.op = "CreateSession"
    /\ \E k \in DOMAIN sessions :
          /\ k # last.token
          /\ sessions[k].UserID = sessions[last.token].UserID
          /\ created[k] < created[last.token]
          /\ ValidateSessionResult(sessions, now, k).err = NoError

\* The request with a cookie and a Bearer header that hold different tokens.
CookieAndBearer == [cookie |-> Cookie("tok2"), header |-> <<"Bearer", " ", "tok1">>]

\* C29: a request to a protected route whose cookie is not a valid session
\* and whose Bearer header holds a valid one is rejected on the cookie's
\* value: cookie cleared, redirect to /login, handler not called; the session
\* of the Bearer token is left as it was.
C29_CookieShadowsBearer ==
    [][(/\ ValidateSessionResult(sessions, now, "tok2").err # NoError
        /\ ValidateSessionResult(sessions, now, "tok1").err = NoError)
          => /\ LET m == AuthMiddleware(sessions, now, DB, CookieAndBearer, "none") IN
                    /\ m.token = "tok2"
                    /\ m.stage = "session"
                    /\ m.resp = Redirect("/login", TRUE)
                    /\ "tok1" \in DOMAIN m.reg /\ m.reg["tok1"] = sessions["tok1"]
             /\ (last'.op \in ProtectedOps /\ last'.token = "tok2" /\ now' = now)
                   => /\ last'.stage = "session"
                      /\ last'.status = 303
                      /\ last'.location = "/login"
                      /\ last'.cleared
                      /\ ~last'.next
                      /\ last'.user = 0
                      /\ "tok1" \in DOMAIN sessions' /\ sessions'["tok1"] = sessions["tok1"]
                      /\ user_roles' = user_roles]_vars

\* C29 witness: an assign-role request with a stale cookie and the Bearer
\* token of an administrator's valid session has just been rejected.
C29_Witness ==
    /\ last.op = "POST /admin/assign-role"
    /\ last.token = "tok2"
    /\ last.stage = "session"
    /\ last.cleared
    /\ "tok2" \notin DOMAIN sessions
    /\ ValidateSessionResult(sessions, now, "tok1").err = NoError
    /\ RoleGrants(DB, sessions["tok1"].UserID, "manage_roles")

\* The user_roles rows of a user id.
RowsOfUser(rows, userID) == {ur \in rows : ur.user_id = userID}

\* C26: when CreateUser succeeds the new user exists and its assignments
\* are the role user alone, with no granter; when it fails no user row was
\* added and no assignment exists for the id the user would have had.
C26_CreateUserAtomic ==
    [][last'.op = "CreateUser"
          => LET id == Len(users) + 1 IN
             IF last'.err = NoError
             THEN /\ Len(users') = id
                  /\ RowsOfUser(user_roles', id) =
                        {[user_id |-> id, role_id |-> getRoleIDByName(DB, "user"),
                          assigned_by |-> NULL]}
             ELSE /\ users' = users
                  /\ RowsOfUser(user_roles', id) = {}]_vars

\* C25: with the sweep goroutine scheduled fairly, a session that is in the
\* registry and has expired is eventually out of the registry, whether or
\* not its token is presented again.
C25_ExpiredEventuallySwept ==
    \A k \in Tokens :
        (k \in DOMAIN sessions /\ After(now, sessions[k].ExpiresAt))
            ~> (k \notin DOMAIN sessions)

\* C25 witness: a sweep has just removed an expired session that no
\* ValidateSession or DestroySession call had touched, and emptied the registry.
C25_Witness ==
    /\ last.op = "CleanupExpiredSessions"
    /\ \E k \in last.removed : k \in LiveIssued /\ now > created[k] + TTL
    /\ DOMAIN sessions = {}

\* C23: an upload creates a PDF record only for a requester to whom a role
\* grants upload_pdf; a user whose only role is user cannot upload.
C23_UploadNeedsPermission ==
    [][(last'.op = "POST /library/upload" /\ pdfs' # pdfs)
          => RoleGrants(DB, last'.user, "upload_pdf")]_vars

\* The goroutines whose registration has inserted, or is about to commit,
\* a row with this username.
Inserters(username) ==
    {p \in Handlers : pc[p] \in {"Register:commit", "Register:session"}
                          /\ local[p].username = username}

\* C30: no two users rows have the same username, however two registrations
\* interleave; of the registrations with one username at most one gets past
\* its INSERT; a registration that did not insert ends with an error status,
\* no new session and no new row, and one that did ends with a session of
\* the user it created.
C30_UsernamesUniqueUnderRace ==
    [][/\ \A i, j \in 1..Len(users') :
             i # j => users'[i].username # users'[j].username
       /\ \A username \in Usernames : Cardinality(Inserters(username)') <= 1
       /\ \A p \in Handlers :
             (pc[p] # "idle" /\ pc'[p] = "idle")
                => IF pc[p] = "Register:session"
                   THEN /\ last'.status = 303
                        /\ last'.token \in DOMAIN sessions' \ DOMAIN sessions
                        /\ last'.user \in 1..Len(users)
                        /\ users[last'.user].username = local[p].username
                        /\ sessions'[last'.token].UserID = last'.user
                   ELSE /\ last'.proc = p
                        /\ last'.status \in {400, 500}
                        /\ ~last'.next
                        /\ last'.token = ""
                        /\ sessions' = sessions
                        /\ issued' = issued
                        /\ users' = users
                        /\ user_roles' = user_roles]_vars

\* C30 witness: a registration that passed the existence check has just been
\* refused by the UNIQUE constraint, while the goroutine that inserted the
\* same username has not yet created its session.
C30_Witness ==
    /\ last.op = "POST /register"
    /\ last.body = "Username or email already exists"
    /\ \E q \in Handlers \ {last.proc} :
          /\ pc[q] = "Register:session"
          /\ local[q].username = last.username
    /\ Cardinality({i \in 1..Len(users) : users[i].username = last.username}) = 1
    /\ sessions = << >>
=============================================================================
